---- MODULE Spec2Model ----
(***************************************************************************)
(* ResolveEsConfigFromk8s (internal/utils/k8s.go): three sequential        *)
(* lookups against a Kubernetes directory (service, user secret, certs     *)
(* secret) assembled into an elasticsearch.Config.  Every call is a        *)
(* process walking through the function body; the directory is never       *)
(* written.                                                                *)
(***************************************************************************)
EXTENDS Integers, Sequences, FiniteSets, TLC

(* ------------------------------ bounds -------------------------------- *)
\* longest Spec.Ports list a service of the directory declares
MaxPorts == 2
\* longest Status.LoadBalancer.Ingress list a service of the directory reports
MaxIngress == 2
\* number of goroutines that may be inside ResolveEsConfigFromk8s at once
NumCallers == 2

Procs == 1..NumCallers

(* --------------------------- input domains ---------------------------- *)
Namespaces == {"ns-a", "ns-b"}
ClusterNames == {"cluster-a", "cluster-b"}
\* contexts a caller may hold when it calls the function
Contexts == {"Background", "WithTimeout"}
PortSet == {[Name |-> "http", Port |-> 9200], [Name |-> "https", Port |-> 9243]}
IPSet == {"", "10.0.0.1"}
ClusterIPSet == {"", "127.0.0.1"}

SeqsUpTo(S, n) == UNION {[1..k -> S] : k \in 0..n}

(* ------------------------------ values -------------------------------- *)
\* map[string][]byte with no entry (also the nil map of a zero Secret)
EmptyData == [k \in {} |-> ""]

ZeroService == [Ports |-> <<>>, ClusterIP |-> "", Ingress |-> <<>>]
ZeroSecret == [Data |-> EmptyData]

\* elasticsearch.Config{}: CACert is an optional byte slice, <<>> is nil
ZeroConfig == [Addresses |-> <<>>, Username |-> "", Password |-> "", CACert |-> <<>>]

NilErr == [type |-> "nil", msg |-> ""]
\* fmt.Errorf(msg)
Errorf(msg) == [type |-> "fmt", msg |-> msg]
\* the directory's not-found error for a resource of a kind
NotFoundErr(resource, name) ==
    [type |-> "NotFound", msg |-> resource \o " \"" \o name \o "\" not found"]

(* --------------------------- name derivation -------------------------- *)
\* fmt.Sprintf("%s-es-http", name) and the two secret names
ServiceName(name) == name \o "-es-http"
UserSecretNameCerts(name) == name \o "-es-http-certs-public"
UserSecretName(name) == name \o "-es-elastic-user"
CertsSecretNameInternal(name) == name \o "-es-http-certs-internal"
CertsSecretName(name) == name \o "-es-http-certs-public"

(* ------------------------------ directory ----------------------------- *)
ServiceValues ==
    {[Ports |-> ps, ClusterIP |-> cip, Ingress |-> ing] :
        ps \in SeqsUpTo(PortSet, MaxPorts),
        cip \in ClusterIPSet,
        ing \in SeqsUpTo([IP : IPSet], MaxIngress)}

UserSecretValues ==
    {[Data |-> d] : d \in {EmptyData,
                           "elastic" :> "",
                           "elastic" :> "secretpw",
                           "badEntry" :> "x",
                           "ca.crt" :> "userCA",
                           ("elastic" :> "secretpw") @@ ("ca.crt" :> "userCA")}}

CertsSecretValues ==
    {[Data |-> d] : d \in {EmptyData, "ca.crt" :> "httpCA"}}

\* a directory holding at most one object under a key
Objects(key, values) == {[k \in {} |-> ZeroSecret]} \cup {key :> v : v \in values}

(* ------------------------------- state -------------------------------- *)
VARIABLES
    dir,      \* the directory behind k8sClient: services and secrets by <<namespace, name>>
    merges,   \* whether k8sClient.Get decodes into the object it is given without clearing it
    pc,       \* each caller's position in ResolveEsConfigFromk8s
    args,     \* each call's namespace, name and the context its caller holds
    frame,    \* the locals of each activation of the function
    log,      \* the Get requests each call has issued, in order
    ret       \* what each finished call returned

vars == <<dir, merges, pc, args, frame, log, ret>>

ZeroFrame ==
    [esCfg |-> ZeroConfig, service |-> ZeroService, protocol |-> "", port |-> 0,
     ip |-> "", secret |-> ZeroSecret, secretName |-> ""]

\* the activation record a call's locals live in: one per call
FrameShared(p) == 1
Frame(p) == p

(* ------------------------- the directory client ----------------------- *)
\* entries of a map after decoding `fetched` into a map that holds `old`
MergeData(old, fetched) ==
    [k \in (DOMAIN old) \cup (DOMAIN fetched) |->
        IF k \in DOMAIN fetched THEN fetched[k] ELSE old[k]]

\* k8sClient.Get(ctx, key, &service)
GetService(d, key, into) ==
    IF key \in DOMAIN d.services
    THEN [err |-> NilErr, obj |-> d.services[key]]
    ELSE [err |-> NotFoundErr("services", key[2]), obj |-> into]

\* k8sClient.Get(ctx, key, &secret): a client that decodes into the object
\* it is handed keeps the entries that object already holds; a client that
\* clears or replaces the object does not.
GetSecret(d, m, key, into) ==
    IF key \in DOMAIN d.secrets
    THEN [err |-> NilErr,
          obj |-> [Data |-> IF m THEN MergeData(into.Data, d.secrets[key].Data)
                                 ELSE d.secrets[key].Data]]
    ELSE [err |-> NotFoundErr("secrets", key[2]), obj |-> into]

\* the context handed to k8sClient.Get, given the context the caller holds
LookupCtxOfCaller(callerCtx) == callerCtx
LookupCtx(callerCtx) == "Background"

Request(kind, p, name) ==
    [kind |-> kind, namespace |-> args[p].namespace, name |-> name,
     ctx |-> LookupCtx(args[p].ctx)]

(* ------------------------- steps of the function ---------------------- *)
\* len(service.Spec.Ports) != 1 is refused
PortCountOKAtLeastOne(service) == Len(service.Ports) >= 1
PortCountOK(service) == Len(service.Ports) = 1

\* ip := ClusterIP; if len(ingress) == 1 { ip = ingress[0].IP }
SelectIPAnyIngress(service) ==
    IF Len(service.Ingress) >= 1 THEN service.Ingress[1].IP ELSE service.ClusterIP
SelectIPNonEmptyIngress(service) ==
    IF Len(service.Ingress) = 1 /\ service.Ingress[1].IP # ""
    THEN service.Ingress[1].IP ELSE service.ClusterIP
SelectIP(service) ==
    IF Len(service.Ingress) = 1 THEN service.Ingress[1].IP ELSE service.ClusterIP

\* password, ok := secret.Data[username]
HasEntryNonEmpty(secret, key) == key \in DOMAIN secret.Data /\ secret.Data[key] # ""
HasEntry(secret, key) == key \in DOMAIN secret.Data

\* fmt.Sprintf("%s://%s:%d", protocol, ip, port)
FormatAddress(protocol, ip, port) == protocol \o "://" \o ip \o ":" \o ToString(port)

\* the configuration handed back next to an error
ErrResultPartial(esCfg) == esCfg
ErrResult(esCfg) == ZeroConfig

PortCountErr(service) == Errorf("not exactly 1 port: " \o ToString(Len(service.Ports)))
NoIPErr == Errorf("service IP not found")
NoEntryErr(secretName) == Errorf("no 'elastic' entry in Secret \"" \o secretName \o "\"")

F(p) == frame[Frame(p)]

Return(p, cfg, err) ==
    /\ pc' = [pc EXCEPT ![p] = "done"]
    /\ ret' = [ret EXCEPT ![p] = [cfg |-> cfg, err |-> err]]

Continue(p, next) ==
    /\ pc' = [pc EXCEPT ![p] = next]
    /\ UNCHANGED ret

\* a caller enters the function: esCfg := elasticsearch.Config{}
Call(p, namespace, name, ctx) ==
    /\ pc[p] = "idle"
    /\ args' = [args EXCEPT ![p] = [namespace |-> namespace, name |-> name, ctx |-> ctx]]
    /\ frame' = [frame EXCEPT ![Frame(p)] = ZeroFrame]
    /\ pc' = [pc EXCEPT ![p] = "getService"]
    /\ UNCHANGED <<dir, merges, log, ret>>

\* var service; Get the service; return on error
FetchService(p) ==
    /\ pc[p] = "getService"
    /\ LET svcName == ServiceName(args[p].name)
           r == GetService(dir, <<args[p].namespace, svcName>>, ZeroService)
       IN /\ log' = [log EXCEPT ![p] = Append(@, Request("Service", p, svcName))]
          /\ frame' = [frame EXCEPT ![Frame(p)].service = r.obj]
          /\ IF r.err # NilErr
             THEN Return(p, ErrResult(F(p).esCfg), r.err)
             ELSE Continue(p, "checkService")
    /\ UNCHANGED <<dir, merges, args>>

\* port count, protocol, port, address selection
CheckService(p) ==
    /\ pc[p] = "checkService"
    /\ LET service == F(p).service
       IN IF ~PortCountOK(service)
          THEN /\ Return(p, ErrResult(F(p).esCfg), PortCountErr(service))
               /\ UNCHANGED frame
          ELSE LET ip == SelectIP(service)
               IN /\ frame' = [frame EXCEPT ![Frame(p)].protocol = service.Ports[1].Name,
                                            ![Frame(p)].port = service.Ports[1].Port,
                                            ![Frame(p)].ip = ip]
                  /\ IF ip = ""
                     THEN Return(p, ErrResult(F(p).esCfg), NoIPErr)
                     ELSE Continue(p, "getUserSecret")
    /\ UNCHANGED <<dir, merges, args, log>>

\* var secret; Get the user secret; return on error
FetchUserSecret(p) ==
    /\ pc[p] = "getUserSecret"
    /\ LET secretName == UserSecretName(args[p].name)
           r == GetSecret(dir, merges, <<args[p].namespace, secretName>>, ZeroSecret)
       IN /\ log' = [log EXCEPT ![p] = Append(@, Request("Secret", p, secretName))]
          /\ frame' = [frame EXCEPT ![Frame(p)].secret = r.obj,
                                    ![Frame(p)].secretName = secretName]
          /\ IF r.err # NilErr
             THEN Return(p, ErrResult(F(p).esCfg), r.err)
             ELSE Continue(p, "extractPassword")
    /\ UNCHANGED <<dir, merges, args>>

\* esCfg.Username = "elastic"; the password is the entry under that key
ExtractPassword(p) ==
    /\ pc[p] = "extractPassword"
    /\ LET username == "elastic"
           secret == F(p).secret
       IN IF HasEntry(secret, username)
          THEN /\ frame' = [frame EXCEPT ![Frame(p)].esCfg.Username = username,
                                         ![Frame(p)].esCfg.Password = secret.Data[username]]
               /\ Continue(p, "getCertsSecret")
          ELSE /\ frame' = [frame EXCEPT ![Frame(p)].esCfg.Username = username]
               /\ Return(p, ErrResult([F(p).esCfg EXCEPT !.Username = username]),
                         NoEntryErr(F(p).secretName))
    /\ UNCHANGED <<dir, merges, args, log>>

\* Get the certs secret into the same secret variable; return on error
FetchCertsSecret(p) ==
    /\ pc[p] = "getCertsSecret"
    /\ LET secretName == CertsSecretName(args[p].name)
           r == GetSecret(dir, merges, <<args[p].namespace, secretName>>, F(p).secret)
       IN /\ log' = [log EXCEPT ![p] = Append(@, Request("Secret", p, secretName))]
          /\ frame' = [frame EXCEPT ![Frame(p)].secret = r.obj,
                                    ![Frame(p)].secretName = secretName]
          /\ IF r.err # NilErr
             THEN Return(p, ErrResult(F(p).esCfg), r.err)
             ELSE Continue(p, "compose")
    /\ UNCHANGED <<dir, merges, args>>

\* optional CA certificate, the single address, return esCfg, nil
Compose(p) ==
    /\ pc[p] = "compose"
    /\ LET f == F(p)
           withCA == IF HasEntry(f.secret, "ca.crt")
                     THEN [f.esCfg EXCEPT !.CACert = <<f.secret.Data["ca.crt"]>>]
                     ELSE f.esCfg
           cfg == [withCA EXCEPT !.Addresses = <<FormatAddress(f.protocol, f.ip, f.port)>>]
       IN /\ frame' = [frame EXCEPT ![Frame(p)].esCfg = cfg]
          /\ Return(p, cfg, NilErr)
    /\ UNCHANGED <<dir, merges, args, log>>

Step(p) ==
    \/ \E ns \in Namespaces, name \in ClusterNames, ctx \in Contexts : Call(p, ns, name, ctx)
    \/ FetchService(p)
    \/ CheckService(p)
    \/ FetchUserSecret(p)
    \/ ExtractPassword(p)
    \/ FetchCertsSecret(p)
    \/ Compose(p)

(* --------------------------- specifications --------------------------- *)
SvcKey == <<"ns-a", "cluster-a-es-http">>
UserKey == <<"ns-a", "cluster-a-es-elastic-user">>
CertsKey == <<"ns-a", "cluster-a-es-http-certs-public">>

InitCalls ==
    /\ pc = [p \in Procs |-> "idle"]
    /\ args = [p \in Procs |-> [namespace |-> "", name |-> "", ctx |-> "Background"]]
    /\ frame = [p \in Procs |-> ZeroFrame]
    /\ log = [p \in Procs |-> <<>>]
    /\ ret = [p \in Procs |-> [cfg |-> ZeroConfig, err |-> NilErr]]

\* one caller, every shape of the three objects of cluster-a in ns-a
Init ==
    /\ \E svc \in Objects(SvcKey, ServiceValues),
          user \in Objects(UserKey, UserSecretValues),
          certs \in Objects(CertsKey, CertsSecretValues) :
            dir = [services |-> svc, secrets |-> user @@ certs]
    /\ merges \in BOOLEAN
    /\ InitCalls

Next == Step(1)

Spec == Init /\ [][Next]_vars

(* ---------------------- concurrent callers ----------------------------- *)
GoodService == [Ports |-> <<[Name |-> "http", Port |-> 9200]>>,
                ClusterIP |-> "127.0.0.1", Ingress |-> <<>>]

\* a second, complete cluster in the same namespace
ClusterB ==
    [services |-> <<"ns-a", "cluster-b-es-http">> :>
                      [Ports |-> <<[Name |-> "https", Port |-> 9243]>>,
                       ClusterIP |-> "127.0.0.2", Ingress |-> <<[IP |-> "10.0.0.2"]>>],
     secrets |-> (<<"ns-a", "cluster-b-es-elastic-user">> :> [Data |-> "elastic" :> "pw-b"])
                 @@ (<<"ns-a", "cluster-b-es-http-certs-public">> :>
                        [Data |-> "ca.crt" :> "httpCA-b"])]

\* NumCallers callers against a directory that holds cluster-b whole and
\* cluster-a in several shapes
InitConc ==
    /\ \E svc \in Objects(SvcKey, {GoodService}),
          user \in {UserKey :> [Data |-> d] :
                       d \in {"elastic" :> "secretpw", "badEntry" :> "x",
                              ("elastic" :> "secretpw") @@ ("ca.crt" :> "userCA")}},
          certs \in {CertsKey :> v : v \in CertsSecretValues} :
            dir = [services |-> svc @@ ClusterB.services,
                   secrets |-> user @@ certs @@ ClusterB.secrets]
    /\ merges \in BOOLEAN
    /\ InitCalls

NextConc == \E p \in Procs : Step(p)

SpecConc == InitConc /\ [][NextConc]_vars

\* the function run from entry to return with nothing else running
ResolveAlone(d, m, a) ==
    LET r1 == GetService(d, <<a.namespace, ServiceName(a.name)>>, ZeroService)
        service == r1.obj
        ip == SelectIP(service)
        userName == UserSecretName(a.name)
        r2 == GetSecret(d, m, <<a.namespace, userName>>, ZeroSecret)
        r3 == GetSecret(d, m, <<a.namespace, CertsSecretName(a.name)>>, r2.obj)
        withPw == [ZeroConfig EXCEPT !.Username = "elastic"]
    IN  IF r1.err # NilErr THEN [cfg |-> ErrResult(ZeroConfig), err |-> r1.err]
        ELSE IF ~PortCountOK(service)
             THEN [cfg |-> ErrResult(ZeroConfig), err |-> PortCountErr(service)]
        ELSE IF ip = "" THEN [cfg |-> ErrResult(ZeroConfig), err |-> NoIPErr]
        ELSE IF r2.err # NilErr THEN [cfg |-> ErrResult(ZeroConfig), err |-> r2.err]
        ELSE IF ~HasEntry(r2.obj, "elastic")
             THEN [cfg |-> ErrResult(withPw), err |-> NoEntryErr(userName)]
        ELSE IF r3.err # NilErr
             THEN [cfg |-> ErrResult([withPw EXCEPT !.Password = r2.obj.Data["elastic"]]),
                   err |-> r3.err]
        ELSE [cfg |-> [Addresses |-> <<FormatAddress(service.Ports[1].Name, ip,
                                                     service.Ports[1].Port)>>,
                       Username |-> "elastic",
                       Password |-> r2.obj.Data["elastic"],
                       CACert |-> IF HasEntry(r3.obj, "ca.crt")
                                  THEN <<r3.obj.Data["ca.crt"]>> ELSE <<>>],
              err |-> NilErr]

(* ---------------- what a finished call is compared against ------------ *)
Done(p) == pc[p] = "done"
Succeeded(p) == Done(p) /\ ret[p].err = NilErr

SvcKeyOf(p) == <<args[p].namespace, args[p].name \o "-es-http">>
UserKeyOf(p) == <<args[p].namespace, args[p].name \o "-es-elastic-user">>
CertsKeyOf(p) == <<args[p].namespace, args[p].name \o "-es-http-certs-public">>

SvcExists(p) == SvcKeyOf(p) \in DOMAIN dir.services
UserExists(p) == UserKeyOf(p) \in DOMAIN dir.secrets
CertsExists(p) == CertsKeyOf(p) \in DOMAIN dir.secrets
Svc(p) == dir.services[SvcKeyOf(p)]
User(p) == dir.secrets[UserKeyOf(p)]
Certs(p) == dir.secrets[CertsKeyOf(p)]

\* the sole ingress IP when there is exactly one ingress entry, else the ClusterIP
Selected(p) ==
    IF Len(Svc(p).Ingress) = 1 THEN Svc(p).Ingress[1].IP ELSE Svc(p).ClusterIP

\* the service exists, declares one port and has a non-empty selected address
ServiceValid(p) == SvcExists(p) /\ Len(Svc(p).Ports) = 1 /\ Selected(p) # ""
\* the credential secret exists and holds an "elastic" entry
UserValid(p) == UserExists(p) /\ "elastic" \in DOMAIN User(p).Data

InvalidShape(p) == [type |-> "fmt", msg |-> "not exactly 1 port: " \o ToString(Len(Svc(p).Ports))]
MissingAddress == [type |-> "fmt", msg |-> "service IP not found"]
MissingEntry(p) ==
    [type |-> "fmt",
     msg |-> "no 'elastic' entry in Secret \"" \o args[p].name \o "-es-elastic-user\""]
NotFound(resource, key) ==
    [type |-> "NotFound", msg |-> resource \o " \"" \o key[2] \o "\" not found"]

(* -------------------------------- claims ------------------------------ *)

\* C1: whenever the call succeeds, the address list has exactly one element,
\* "<name of the single port>://<A>:<its number>", A being the sole ingress
\* IP when there is exactly one ingress entry and the ClusterIP otherwise.
C1_SingleAddress ==
    \A p \in Procs : Succeeded(p) =>
        /\ SvcExists(p)
        /\ Len(Svc(p).Ports) = 1
        /\ ret[p].cfg.Addresses =
              <<Svc(p).Ports[1].Name \o "://" \o Selected(p) \o ":"
                  \o ToString(Svc(p).Ports[1].Port)>>

\* a call succeeded on a service whose one ingress IP differs from its ClusterIP
C1_Witness ==
    \E p \in Procs :
        /\ Succeeded(p)
        /\ Len(Svc(p).Ingress) = 1
        /\ Svc(p).ClusterIP = "127.0.0.1"
        /\ ret[p].cfg.Addresses = <<"https://10.0.0.1:9243">>

\* C2: a call that returns an error returns the zero configuration, at
\* whatever step it failed; a call that returns no error returns a non-empty
\* address list.
C2_NoPartialConfig ==
    \A p \in Procs : Done(p) =>
        /\ ret[p].err # NilErr => ret[p].cfg = ZeroConfig
        /\ ret[p].err = NilErr => ret[p].cfg.Addresses # <<>>

\* a call failed at the trust lookup, with username and password already set
C2_Witness ==
    \E p \in Procs :
        /\ Done(p)
        /\ ret[p].err = NotFound("secrets", CertsKeyOf(p))
        /\ F(p).esCfg.Username = "elastic"
        /\ F(p).esCfg.Password = "secretpw"

\* the lookups a call issues if no step fails, in order
ExpectedLookups(p) ==
    <<[kind |-> "Service", key |-> SvcKeyOf(p)],
      [kind |-> "Secret", key |-> UserKeyOf(p)],
      [kind |-> "Secret", key |-> CertsKeyOf(p)]>>

IssuedLookups(p) ==
    [i \in 1..Len(log[p]) |->
        [kind |-> log[p][i].kind, key |-> <<log[p][i].namespace, log[p][i].name>>]]

\* C3: the lookups are issued in the order service, credential secret, trust
\* secret, each at most once, and none after a failing step: an absent
\* service fails with not-found after one lookup, a port-count or
\* missing-address failure comes before the credential lookup, a credential
\* failure before the trust lookup.
C3_LookupOrder ==
    \A p \in Procs :
        /\ Len(log[p]) <= 3
        /\ IssuedLookups(p) = SubSeq(ExpectedLookups(p), 1, Len(log[p]))
        /\ Done(p) =>
            /\ ~SvcExists(p) =>
                  ret[p].err = NotFound("services", SvcKeyOf(p)) /\ Len(log[p]) = 1
            /\ (SvcExists(p) /\ ret[p].err \in {InvalidShape(p), MissingAddress}) =>
                  Len(log[p]) = 1
            /\ ret[p].err \in {NotFound("secrets", UserKeyOf(p)), MissingEntry(p)} =>
                  Len(log[p]) = 2
            /\ ret[p].err = NotFound("secrets", CertsKeyOf(p)) => Len(log[p]) = 3
            /\ ret[p].err = NilErr => Len(log[p]) = 3

\* a call failed on an absent service while the credential secret exists
C3_Witness ==
    \E p \in Procs :
        /\ Done(p)
        /\ ~SvcExists(p)
        /\ UserValid(p)
        /\ Len(log[p]) = 1

\* C4: a service that exists and declares zero or several ports makes the
\* call fail with the invalid-shape error and the zero configuration,
\* whatever the secrets hold.
C4_PortCount ==
    \A p \in Procs : (Done(p) /\ SvcExists(p) /\ Len(Svc(p).Ports) # 1) =>
        /\ ret[p].err = InvalidShape(p)
        /\ ret[p].cfg = ZeroConfig

\* a call on a two-port service with both secrets in place has returned
C4_Witness ==
    \E p \in Procs :
        /\ Done(p)
        /\ SvcExists(p)
        /\ Len(Svc(p).Ports) = 2
        /\ Selected(p) # ""
        /\ UserValid(p)
        /\ CertsExists(p)

\* C5: with a valid service and an existing credential secret, a missing
\* "elastic" entry fails the call with the missing-entry error and the zero
\* configuration; a present entry, even an empty one, does not fail this
\* step, and on success the username is "elastic" and the password is the
\* entry.
C5_PasswordEntry ==
    \A p \in Procs : (Done(p) /\ ServiceValid(p) /\ UserExists(p)) =>
        /\ "elastic" \notin DOMAIN User(p).Data =>
              ret[p].err = MissingEntry(p) /\ ret[p].cfg = ZeroConfig
        /\ "elastic" \in DOMAIN User(p).Data =>
              /\ ret[p].err # MissingEntry(p)
              /\ ret[p].err = NilErr =>
                    /\ ret[p].cfg.Username = "elastic"
                    /\ ret[p].cfg.Password = User(p).Data["elastic"]

\* a call succeeded on a credential secret whose "elastic" entry is empty
C5_Witness ==
    \E p \in Procs :
        /\ Succeeded(p)
        /\ User(p).Data["elastic"] = ""
        /\ ret[p].cfg.Username = "elastic"
        /\ ret[p].cfg.Password = ""

\* C6: a call that reaches address selection (the service exists and has one
\* port) fails with the missing-address error exactly when the selected
\* address is empty; no other call fails with that error.
C6_MissingAddress ==
    \A p \in Procs : Done(p) =>
        IF SvcExists(p) /\ Len(Svc(p).Ports) = 1
        THEN (ret[p].err = MissingAddress) <=> (Selected(p) = "")
        ELSE ret[p].err # MissingAddress

\* a call failed on one empty ingress IP although the ClusterIP is set
C6_Witness ==
    \E p \in Procs :
        /\ Done(p)
        /\ SvcExists(p)
        /\ Len(Svc(p).Ingress) = 1
        /\ Svc(p).Ingress[1].IP = ""
        /\ Svc(p).ClusterIP = "127.0.0.1"
        /\ ret[p].err = MissingAddress

\* C7: with a valid service and a valid credential secret, an absent trust
\* secret fails the call with the directory's not-found error and the zero
\* configuration; a trust secret without a "ca.crt" entry lets it succeed.
C7_TrustSecret ==
    \A p \in Procs : (Done(p) /\ ServiceValid(p) /\ UserValid(p)) =>
        /\ ~CertsExists(p) =>
              /\ ret[p].err = NotFound("secrets", CertsKeyOf(p))
              /\ ret[p].cfg = ZeroConfig
        /\ (CertsExists(p) /\ "ca.crt" \notin DOMAIN Certs(p).Data) =>
              ret[p].err = NilErr

\* a call succeeded on a trust secret that holds no "ca.crt" entry
C7_Witness ==
    \E p \in Procs :
        /\ Succeeded(p)
        /\ CertsExists(p)
        /\ "ca.crt" \notin DOMAIN Certs(p).Data

\* C8 as stated: every lookup of a call carries the context its caller holds.
C8_ForwardsCallerContext ==
    \A p \in Procs : \A i \in 1..Len(log[p]) : log[p][i].ctx = args[p].ctx

\* C8 as amended: every lookup of a call carries the background context,
\* whatever context its caller holds.
C8_BackgroundContext ==
    \A p \in Procs : \A i \in 1..Len(log[p]) : log[p][i].ctx = "Background"

\* a caller holding a timeout context has had all three lookups issued
C8_Witness ==
    \E p \in Procs :
        /\ Done(p)
        /\ args[p].ctx = "WithTimeout"
        /\ Len(log[p]) = 3

\* C9: under any interleaving of concurrent calls against an unchanged
\* directory, each call returns what it returns when run alone, and two
\* calls with the same namespace and cluster name return the same.
C9_Isolation ==
    /\ \A p \in Procs : Done(p) => ret[p] = ResolveAlone(dir, merges, args[p])
    /\ \A p, q \in Procs :
          (Done(p) /\ Done(q) /\ args[p].namespace = args[q].namespace
              /\ args[p].name = args[q].name) => ret[p] = ret[q]

\* two calls for the same cluster have both succeeded, a third caller or a
\* call for the other cluster aside
C9_Witness ==
    \E p, q \in Procs :
        /\ p # q
        /\ Succeeded(p) /\ Succeeded(q)
        /\ args[p].namespace = args[q].namespace
        /\ args[p].name = args[q].name
        /\ ret[p].cfg.CACert # <<>>

====
